---- MODULE Spec2Model ----
(***************************************************************************)
(* Model of the mwan3-nft multi-WAN daemon: the health checker             *)
(* (health_check.rs), the load balancer / policy engine                    *)
(* (load_balancer.rs) and the nftables rule compiler (nftables.rs), over   *)
(* a configuration loaded by config.rs.                                    *)
(***************************************************************************)
EXTENDS Integers, Sequences, FiniteSets, TLC

VARIABLES
    config,            \* Arc<RwLock<Config>>: the loaded configuration
    interface_health,  \* HealthChecker.interface_health: HashMap<String, InterfaceHealth>
    probes,            \* per uplink, the probe outcomes fed to its record so far
    now,               \* the monotonic clock read by Instant::now()
    health_task,       \* the task running HealthChecker::start: "running" / "stopped"
    current_policy,    \* LoadBalancer.current_policy: Option<String>
    policy_lock,       \* the RwLock around current_policy: "free" / "read_held"
    chains,            \* kernel state of table inet mwan3: chain name -> rules
    nft_table,         \* kernel state: whether the table exists, its chains
    last,              \* what the last operation did and returned
    error,             \* the Err the last operation returned, as message parts
    race,              \* UdpRaceManager and the tasks calling it
    applying,          \* where each task inside apply_policy stands
    process            \* whether the process runs or has exited

vars == <<config, interface_health, probes, now, health_task,
          current_policy, policy_lock, chains, nft_table, last, error, race,
          applying, process>>

(***************************************************************************)
(* Bounds of the model.                                                    *)
(***************************************************************************)
MaxNow == 6         \* no health-check cycle starts once the clock reached it

MaxRules == 4       \* mwan3_rules is let to grow to this many rules

MaxMarks == 2       \* mwan3_track is let to grow to this many rules

MaxRaces == 2       \* no race is started once race_counter reached it

(***************************************************************************)
(* Option<T> and the values used for durations.                            *)
(***************************************************************************)
None == [some |-> FALSE, v |-> 0]
Some(x) == [some |-> TRUE, v |-> x]
is_some(o) == o.some

Latencies == {10, 20}

(***************************************************************************)
(* config.rs: Interface, Policy, HealthCheckConfig, Config.                *)
(***************************************************************************)
Interface(n, dev, w, m, en, sets) ==
    [name |-> n, interface_name |-> dev, weight |-> w, mark |-> m,
     enabled |-> en, nftables_sets |-> sets]

Policy(t, ifs) == [policy_type |-> t, interfaces |-> ifs]

HealthCheckConfig(f, s) == [fail_threshold |-> f, succ_threshold |-> s]

Names == {"wan1", "wan2", "wan3"}

\* The uplinks of the configurations explored; wan3 is enabled or not.
Interfaces(wan3_enabled) ==
    << Interface("wan1", "eth1", 1, 256, TRUE, <<"lan_a">>),
       Interface("wan2", "eth2", 3, 512, TRUE, <<"lan_b", "lan_c">>),
       Interface("wan3", "eth3", 2, 768, wan3_enabled, <<>>) >>

PoliciesA ==
    << Policy("url-test", <<"wan2", "wan1">>),
       Policy("load-balance", <<"wan1", "wan2">>),
       Policy("fallback", <<"wan2", "wan1">>),
       Policy("bogus", <<"wan1">>) >>

\* Policies that name an uplink ("ghost") the configuration does not have.
PoliciesB ==
    << Policy("fallback", <<"wan1", "ghost">>),
       Policy("load-balance", <<"ghost">>),
       Policy("url-test", <<"wan3", "wan1">>) >>

Config(ifs, pols, hc) ==
    [interfaces |-> ifs, policies |-> pols, health_check |-> hc, udp_race |-> TRUE]

\* Config::validate accepts every configuration (its body is Ok(())).
validate(cfg) == TRUE

\* Config::load: the parsed file, whatever its policies name.
load(cfg) == [ok |-> TRUE, config |-> cfg]

HealthConfigs ==
    { Config(Interfaces(FALSE), PoliciesA, HealthCheckConfig(f, s)) :
        f \in {1, 2}, s \in {1, 2} }

PolicyConfigs ==
    { Config(Interfaces(TRUE), PoliciesA, HealthCheckConfig(2, 2)),
      Config(Interfaces(TRUE), PoliciesB, HealthCheckConfig(2, 2)) }

ConfNames(cfg) == { cfg.interfaces[i].name : i \in DOMAIN cfg.interfaces }

EnabledNames(cfg) ==
    { cfg.interfaces[i].name : i \in { j \in DOMAIN cfg.interfaces : cfg.interfaces[j].enabled } }

(***************************************************************************)
(* health_check.rs                                                         *)
(***************************************************************************)
InterfaceHealth(on, lat, lc, fc, rc) ==
    [is_online |-> on, latency |-> lat, last_check |-> lc,
     failure_count |-> fc, recovery_count |-> rc]

\* What running curl can give: it cannot be launched, it exits non-zero,
\* or it exits zero and prints a status code, after `elapsed`.
CurlResults ==
    { [launched |-> FALSE, success |-> FALSE, code2xx |-> FALSE, elapsed |-> 10],
      [launched |-> TRUE, success |-> FALSE, code2xx |-> FALSE, elapsed |-> 20],
      [launched |-> TRUE, success |-> TRUE, code2xx |-> FALSE, elapsed |-> 10] }
    \cup { [launched |-> TRUE, success |-> TRUE, code2xx |-> TRUE, elapsed |-> d] :
             d \in Latencies }

\* perform_health_check: Err when curl cannot start (.output().await?),
\* Ok(Some(elapsed)) on exit 0 with a 2xx code, Ok(None) otherwise.
perform_health_check(curl) ==
    IF ~curl.launched THEN [ok |-> FALSE, val |-> None]
    ELSE IF curl.success
         THEN IF curl.code2xx THEN [ok |-> TRUE, val |-> Some(curl.elapsed)]
              ELSE [ok |-> TRUE, val |-> None]
         ELSE [ok |-> TRUE, val |-> None]

\* A faulty variant: is_online follows the last probe, without hysteresis.
update_health_status_follow(health, check_success) ==
    [health EXCEPT !.is_online = check_success]

\* update_health_status: the body is empty, the record is left as it is.
update_health_status(health, check_success) == health

\* check_interface, line 71: health.latency = latency.
record_latency(health, latency) == [health EXCEPT !.latency = latency]

\* check_interface on the state st = [health, probes, now, ok]: an Err of
\* perform_health_check returns before the map is touched.
check_interface(st, name, curl) ==
    LET res == perform_health_check(curl)
        t == st.now + 1
    IN  IF ~res.ok
        THEN [st EXCEPT !.now = t, !.ok = FALSE]
        ELSE
          LET hm == st.health
              entry == IF name \in DOMAIN hm THEN hm[name]
                       ELSE InterfaceHealth(FALSE, None, t, 0, 0)
              h1 == [entry EXCEPT !.last_check = t]
              h2 == record_latency(h1, res.val)
              h3 == update_health_status(h2, is_some(res.val))
          IN  [st EXCEPT !.now = t,
                         !.health = (name :> h3) @@ hm,
                         !.probes = [st.probes EXCEPT
                                       ![name] = Append(@, is_some(res.val))]]

\* check_all_interfaces: the enabled interfaces in configuration order,
\* stopping at the first Err (the ? on check_interface).
RECURSIVE check_all_from(_, _, _, _)
check_all_from(st, ifs, curls, i) ==
    IF i > Len(ifs) \/ ~st.ok THEN st
    ELSE IF ifs[i].enabled
         THEN check_all_from(check_interface(st, ifs[i].name, curls[ifs[i].name]),
                             ifs, curls, i + 1)
         ELSE check_all_from(st, ifs, curls, i + 1)

check_all_interfaces(st, cfg, curls) == check_all_from(st, cfg.interfaces, curls, 1)

\* get_online_interfaces: the names whose record is online.
OnlineSet(hm) == { n \in DOMAIN hm : hm[n].is_online }

\* All orders in which a HashMap may iterate over the set S.
Orders(S) ==
    { s \in [1..Cardinality(S) -> S] : \A i, j \in DOMAIN s : s[i] = s[j] => i = j }

get_online_interfaces(hm) == Orders(OnlineSet(hm))

\* A rule: kind "oif" (oif <oif> mark set <mark>), "numgen" (numgen random
\* mod <mod> vmap { <key> : mark set <mark> }), "mark" (mark set <mark>) or
\* "saddr" (ip saddr @<oif> mark set <mark>).
Rule(k, o, md, ky, m) == [mark |-> m, kind |-> k, oif |-> o, mod |-> md, key |-> ky]

NoRule == Rule("none", "", 0, 0, 0)

\* No command of nft.
NoCommand == [op |-> "none", chain |-> "", rule |-> NoRule]

\* last: the operation (op), the policy it evaluated (arg), what it returned
\* (result), how many nft commands it issued, the uplink it selected, and the
\* arguments of a direct call of the rule compiler (intent); repeat tells
\* that the call before it was the same call and returned Ok; rejected and
\* stderr are the command nft refused and what nft printed.
NoLast == [op |-> "none", arg |-> "", result |-> "none", issued |-> 0,
           selected |-> "", tick |-> FALSE, intent |-> << >>, repeat |-> FALSE,
           rejected |-> NoCommand, stderr |-> ""]

\* One tick of the loop of HealthChecker::start: a cycle, and the loop ends
\* when the cycle returns Err.
HealthCycle ==
    /\ health_task = "running"
    /\ now < MaxNow
    /\ \E curls \in [EnabledNames(config) -> CurlResults] :
         LET st0 == [health |-> interface_health, probes |-> probes,
                     now |-> now, ok |-> TRUE]
             st == check_all_interfaces(st0, config, curls)
         IN  /\ interface_health' = st.health
             /\ probes' = st.probes
             /\ now' = st.now
             /\ health_task' = IF st.ok THEN "running" ELSE "stopped"
             /\ last' = [NoLast EXCEPT !.op = "check_all_interfaces",
                                       !.result = IF st.ok THEN "ok" ELSE "curl failed",
                                       !.tick = ~last.tick]
             /\ error' = IF st.ok THEN <<>> ELSE <<"curl: ", "cannot be started">>
    /\ UNCHANGED <<config, current_policy, policy_lock, chains, nft_table, race,
                   applying, process>>

(***************************************************************************)
(* nftables.rs: the commands handed to nft and what the kernel does with   *)
(* them.                                                                   *)
(***************************************************************************)
ChainNames == {"mwan3_hook", "mwan3_connected", "mwan3_track",
               "mwan3_policy", "mwan3_rules"}

FlushChain(c) == [op |-> "flush", chain |-> c, rule |-> NoRule]
AddRule(c, r) == [op |-> "add", chain |-> c, rule |-> r]

\* add table inet mwan3; add chain inet mwan3 <c>; and add chain inet mwan3
\* <c> { type route hook output priority mangle; }.
AddTable == [op |-> "add_table", chain |-> "", rule |-> NoRule]
AddChain(c) == [op |-> "add_chain", chain |-> c, rule |-> NoRule]
AddBaseChain(c) == [op |-> "add_base_chain", chain |-> c, rule |-> NoRule]

\* The table as the kernel holds it: whether it exists, the chains declared
\* in it, and which of them are base chains (attached to a hook).  strict
\* tells the kernel at hand: one that refuses a hook specification on an
\* existing regular chain, or one that ignores it.
NftTable(ex, declared, base, strict) ==
    [chains |-> declared, base |-> base, strict |-> strict, exists |-> ex]

NoTable(strict) == NftTable(FALSE, {}, {}, strict)

\* The table once initialize() has issued all its commands: the five chains
\* of lines 34-40, all of them regular, since mwan3_hook is first added
\* without a hook.
FullTable == NftTable(TRUE, ChainNames, {}, TRUE)

\* The kernel state the commands act on: the table and the rules per chain.
Kernel(t, r) == [table |-> t, rules |-> r]

\* What nft prints on stderr when the kernel refuses the command, "" when it
\* accepts it: add is no error on what exists already, a chain or rule needs
\* its table and chain, and a strict kernel gives no hook to an existing
\* regular chain.
nft_stderr(ch, cmd) ==
    CASE cmd.op = "add_table" -> ""
      [] cmd.op = "add_chain" ->
           IF ch.table.exists THEN "" ELSE "No such file or directory"
      [] cmd.op = "add_base_chain" ->
           IF ~ch.table.exists THEN "No such file or directory"
           ELSE IF ch.table.strict /\ cmd.chain \in ch.table.chains \ ch.table.base
                THEN "File exists"
           ELSE ""
      [] OTHER ->
           IF ch.table.exists /\ cmd.chain \in ch.table.chains THEN ""
           ELSE "No such file or directory"

\* The kernel's effect of one accepted command.
nft_apply(ch, cmd) ==
    CASE cmd.op = "flush" -> [ch EXCEPT !.rules[cmd.chain] = <<>>]
      [] cmd.op = "add" -> [ch EXCEPT !.rules[cmd.chain] = Append(@, cmd.rule)]
      [] cmd.op = "add_table" -> [ch EXCEPT !.table.exists = TRUE]
      [] cmd.op = "add_chain" -> [ch EXCEPT !.table.chains = @ \cup {cmd.chain}]
      [] OTHER -> IF cmd.chain \in ch.table.chains THEN ch
                  ELSE [ch EXCEPT !.table.chains = @ \cup {cmd.chain},
                                  !.table.base = @ \cup {cmd.chain}]

Digits == << "0", "1", "2", "3", "4", "5", "6", "7", "8", "9",
             "a", "b", "c", "d", "e", "f" >>

\* format!("{:x}", n): the hexadecimal digits of n, without leading zeros.
RECURSIVE LowerHex(_)
LowerHex(n) ==
    IF n < 16 THEN << Digits[n + 1] >>
    ELSE LowerHex(n \div 16) \o << Digits[(n % 16) + 1] >>

\* format!("{}", n) of an unsigned number.
Display(n) == << ToString(n) >>

\* The text of a rule as the format! strings of lines 76-79, 90-93, 106-109,
\* 123-126 and 136-139 make it, as the sequence of its pieces.
rule_text(r) ==
    CASE r.kind = "oif" ->
           << "oif ", r.oif, " mark set 0x" >> \o LowerHex(r.mark)
      [] r.kind = "numgen" ->
           << "numgen random mod " >> \o Display(r.mod) \o << " vmap { " >> \o
           Display(r.key) \o << " : mark set 0x" >> \o LowerHex(r.mark) \o << " }" >>
      [] r.kind = "saddr" ->
           << "ip saddr @", r.oif, " mark set 0x" >> \o LowerHex(r.mark)
      [] OTHER -> << "mark set 0x" >> \o LowerHex(r.mark)

\* The text handed to nft for a command, as the sequence of its pieces.
nft_text(cmd) ==
    CASE cmd.op = "flush" -> << "flush chain inet ", "mwan3", " ", cmd.chain >>
      [] cmd.op = "add" ->
           << "add rule inet ", "mwan3", " ", cmd.chain, " " >> \o rule_text(cmd.rule)
      [] cmd.op = "add_table" -> << "add table inet ", "mwan3" >>
      [] cmd.op = "add_chain" -> << "add chain inet ", "mwan3", " ", cmd.chain >>
      [] OTHER -> << "add chain inet ", "mwan3", " ", cmd.chain,
                     " { type route hook output priority mangle; }" >>

\* execute_nft_command, lines 162-165: the Err made of the fixed text and of
\* nft's stderr; the command is not part of it.
nft_error(cmd, stderr) == << "nft command failed: ", stderr >>

\* The stderr of a command refused for a reason outside the model (syntax,
\* permissions).
Refused == "Operation not permitted"

\* execute_nft_command over a handler's commands in order: fail_at = 0 means
\* no command is refused from outside, otherwise command number fail_at is;
\* at the first refused command the handler returns its Err and issues
\* nothing further.
RECURSIVE execute_from(_, _, _, _)
execute_from(ch, cmds, fail_at, i) ==
    IF i > Len(cmds)
    THEN [ok |-> TRUE, chains |-> ch, issued |-> Len(cmds), err |-> <<>>,
          rejected |-> NoCommand, stderr |-> ""]
    ELSE LET stderr == IF i = fail_at THEN Refused ELSE nft_stderr(ch, cmds[i])
         IN  IF stderr /= ""
             THEN [ok |-> FALSE, chains |-> ch, issued |-> i,
                   err |-> nft_error(cmds[i], stderr),
                   rejected |-> cmds[i], stderr |-> stderr]
             ELSE execute_from(nft_apply(ch, cmds[i]), cmds, fail_at, i + 1)

execute_nft_commands(ch, cmds, fail_at) == execute_from(ch, cmds, fail_at, 1)

\* clear_interface_rules / clear_policy_rules: flush chain inet mwan3 mwan3_policy.
clear_policy_rules == FlushChain("mwan3_policy")

\* A faulty variant: the rule goes to mwan3_track.
add_interface_rules_track(interface) ==
    AddRule("mwan3_track", Rule("oif", interface, 0, 0, 1))

\* add_interface_rules: oif <interface> mark set 0x1.
add_interface_rules(interface) ==
    AddRule("mwan3_policy", Rule("oif", interface, 0, 0, 1))

\* A faulty variant: the rule is added without the flush.
update_rules_append(interface) == << add_interface_rules(interface) >>

\* update_rules: clear_interface_rules, then add_interface_rules.
update_rules(interface) == << clear_policy_rules, add_interface_rules(interface) >>

\* setup_round_robin: the flush, then for the i-th interface (from 0) one rule
\* numgen random mod len vmap { i : mark set (i + 1) }.
setup_round_robin(interfaces, policy) ==
    << clear_policy_rules >> \o
    [ k \in 1..Len(interfaces) |->
        AddRule("mwan3_policy", Rule("numgen", "", Len(interfaces), k - 1, k)) ]

\* setup_failover: the flush, then mark set 0x1.
setup_failover(primary) ==
    << clear_policy_rules, AddRule("mwan3_policy", Rule("mark", "", 0, 0, 1)) >>

\* create_chains, lines 34-40: the chains in the order they are added.
ChainList == << "mwan3_hook", "mwan3_connected", "mwan3_track",
                "mwan3_policy", "mwan3_rules" >>

\* create_table: add table inet mwan3.
create_table == << AddTable >>

\* create_chains: one add chain per name, then the add chain of mwan3_hook
\* with its hook.
create_chains ==
    [ k \in 1..Len(ChainList) |-> AddChain(ChainList[k]) ] \o
    << AddBaseChain("mwan3_hook") >>

\* initialize: create_table, then create_chains.
initialize == create_table \o create_chains

\* setup_interface_sets: for every set of the interface, in order, add rule
\* inet mwan3 mwan3_rules ip saddr @<set> mark set 0x<mark>; the chain is not
\* flushed and interface.enabled is not read.
setup_interface_sets(interface) ==
    [ k \in 1..Len(interface.nftables_sets) |->
        AddRule("mwan3_rules",
                Rule("saddr", interface.nftables_sets[k], 0, 0, interface.mark)) ]

\* remove_interface_mark_rules: Ok(()) without a command.
remove_interface_mark_rules(interface) == << >>

\* update_interface_mark: when enabled, add rule inet mwan3 mwan3_track oif
\* <interface> mark set 0x<mark>; else remove_interface_mark_rules.
update_interface_mark(interface, mark, enabled) ==
    IF enabled THEN << AddRule("mwan3_track", Rule("oif", interface, 0, 0, mark)) >>
    ELSE remove_interface_mark_rules(interface)

(***************************************************************************)
(* load_balancer.rs                                                        *)
(***************************************************************************)
\* apply_policy, lines 38-41: the first policy whose policy_type equals the
\* name asked for; 0 when there is none.
find_policy(cfg, policy_name) ==
    LET hits == { i \in DOMAIN cfg.policies :
                    cfg.policies[i].policy_type = policy_name }
    IN  IF hits = {} THEN 0
        ELSE CHOOSE i \in hits : \A j \in hits : i <= j

\* select_best_interface: interfaces.first(), or "No online interfaces".
select_best_interface(interfaces) ==
    IF interfaces = <<>> THEN [ok |-> FALSE, val |-> ""]
    ELSE [ok |-> TRUE, val |-> interfaces[1]]

\* select_primary_interface: interfaces.first(); the policy is not read.
select_primary_interface(interfaces, policy) ==
    IF interfaces = <<>> THEN [ok |-> FALSE, val |-> ""]
    ELSE [ok |-> TRUE, val |-> interfaces[1]]

Outcome(r, ch, n, sel, e) ==
    [result |-> r, chains |-> ch, issued |-> n, selected |-> sel, err |-> e]

Executed(ex, sel) ==
    Outcome(IF ex.ok THEN "ok" ELSE "nft command failed", ex.chains, ex.issued, sel,
            ex.err)

\* apply_auto_select_policy on the online list `online`.
apply_auto_select_policy(policy, online, ch, fail_at) ==
    LET selected == select_best_interface(online)
    IN  IF ~selected.ok THEN Outcome("No online interfaces", ch, 0, "", <<"No online interfaces">>)
        ELSE Executed(execute_nft_commands(ch, update_rules(selected.val), fail_at),
                      selected.val)

\* apply_round_robin_policy.
apply_round_robin_policy(policy, online, ch, fail_at) ==
    Executed(execute_nft_commands(ch, setup_round_robin(online, policy), fail_at), "")

\* apply_failover_policy.
apply_failover_policy(policy, online, ch, fail_at) ==
    LET primary == select_primary_interface(online, policy)
    IN  IF ~primary.ok THEN Outcome("No online interfaces", ch, 0, "", <<"No online interfaces">>)
        ELSE Executed(execute_nft_commands(ch, setup_failover(primary.val), fail_at),
                      primary.val)

\* apply_policy up to the write of current_policy: the lookup, then the match
\* on the policy's type.
apply_policy_rules(cfg, policy_name, online, ch, fail_at) ==
    LET i == find_policy(cfg, policy_name)
    IN  IF i = 0 THEN Outcome("Policy not found", ch, 0, "", <<"Policy not found: ", policy_name>>)
        ELSE LET policy == cfg.policies[i]
             IN  CASE policy.policy_type = "url-test" ->
                        apply_auto_select_policy(policy, online, ch, fail_at)
                   [] policy.policy_type = "load-balance" ->
                        apply_round_robin_policy(policy, online, ch, fail_at)
                   [] policy.policy_type = "fallback" ->
                        apply_failover_policy(policy, online, ch, fail_at)
                   [] OTHER -> Outcome("Unknown policy type", ch, 0, "",
                                      <<"Unknown policy type: ", policy.policy_type>>)

\* A faulty variant: the active policy recorded whatever the outcome.
record_current_always(cur, policy_name, result) == Some(policy_name)

\* apply_policy, lines 50-51: reached only when nothing returned early.
record_current(cur, policy_name, result) ==
    IF result = "ok" THEN Some(policy_name) ELSE cur

PolicyNames == {"url-test", "load-balance", "fallback", "bogus", "missing"}

MaxCommands == 1 + Cardinality(Names)

\* apply_policy(policy_name), called from outside the load balancer.  The
\* write lock of current_policy is never granted while a reader is parked
\* in handle_interface_change: the call then stays blocked after its rules.
ApplyPolicy ==
    \E policy_name \in PolicyNames, fail_at \in 0..MaxCommands :
    \E online \in get_online_interfaces(interface_health) :
      LET out == apply_policy_rules(config, policy_name, online,
                                    Kernel(nft_table, chains), fail_at)
          blocked == out.result = "ok" /\ policy_lock = "read_held"
      IN  /\ fail_at <= out.issued
          /\ chains' = out.chains.rules
          /\ nft_table' = out.chains.table
          /\ error' = out.err
          /\ current_policy' = IF blocked THEN current_policy
                                ELSE record_current(current_policy, policy_name, out.result)
          /\ last' = [op |-> "apply_policy", arg |-> policy_name,
                      result |-> IF blocked THEN "blocked" ELSE out.result,
                      issued |-> out.issued, selected |-> out.selected,
                      tick |-> ~last.tick]
          /\ UNCHANGED <<config, interface_health, probes, now, health_task,
                         policy_lock, race,
                         applying, process>>

\* handle_interface_change(interface, is_online), neither argument being read:
\* the read guard of current_policy lives through the if-let body, so the
\* apply_policy it calls blocks at its write() once the rules are in; with a
\* blocked writer queued, later readers block as well.
HandleInterfaceChange ==
    IF policy_lock = "read_held" \/ ~is_some(current_policy)
    THEN /\ last' = [op |-> "handle_interface_change", arg |-> "",
                     result |-> IF policy_lock = "read_held" THEN "blocked" ELSE "ok",
                     issued |-> 0, selected |-> "", tick |-> ~last.tick]
         /\ error' = <<>>
         /\ UNCHANGED <<config, interface_health, probes, now, health_task,
                        current_policy, policy_lock, chains, nft_table, race,
                        applying, process>>
    ELSE \E fail_at \in 0..MaxCommands :
         \E online \in get_online_interfaces(interface_health) :
           LET out == apply_policy_rules(config, current_policy.v, online,
                                         Kernel(nft_table, chains), fail_at)
           IN  /\ fail_at <= out.issued
               /\ chains' = out.chains.rules
               /\ nft_table' = out.chains.table
               /\ error' = out.err
               /\ policy_lock' = IF out.result = "ok" THEN "read_held" ELSE "free"
               /\ last' = [op |-> "handle_interface_change", arg |-> current_policy.v,
                           result |-> IF out.result = "ok" THEN "blocked" ELSE out.result,
                           issued |-> out.issued, selected |-> out.selected,
                           tick |-> ~last.tick]
               /\ UNCHANGED <<config, interface_health, probes, now, health_task,
                              current_policy, race,
                              applying, process>>

(***************************************************************************)
(* apply_policy one command at a time, for the tasks that run it at the    *)
(* same time, and the end of the process.                                  *)
(***************************************************************************)
\* The tasks that call apply_policy.
Appliers == {"a1", "a2"}

\* A task that is not inside apply_policy.
NoApply ==
    [result |-> "none", issued |-> 0, cmds |-> << >>, policy_name |-> "", pc |-> "idle"]

\* apply_policy up to its first nft command: the lookup, the match on the
\* policy's type, the online list and the selection; cmds are the commands
\* the nftables operation of that type will issue, in order.
policy_intent(cfg, policy_name, online) ==
    LET i == find_policy(cfg, policy_name)
        none == [result |-> "Policy not found", cmds |-> << >>]
    IN  IF i = 0 THEN none
        ELSE LET policy == cfg.policies[i]
                 best == select_best_interface(online)
                 primary == select_primary_interface(online, policy)
             IN  CASE policy.policy_type = "url-test" ->
                        IF ~best.ok THEN [none EXCEPT !.result = "No online interfaces"]
                        ELSE [result |-> "ok", cmds |-> update_rules(best.val)]
                   [] policy.policy_type = "load-balance" ->
                        [result |-> "ok", cmds |-> setup_round_robin(online, policy)]
                   [] policy.policy_type = "fallback" ->
                        IF ~primary.ok THEN [none EXCEPT !.result = "No online interfaces"]
                        ELSE [result |-> "ok", cmds |-> setup_failover(primary.val)]
                   [] OTHER -> [none EXCEPT !.result = "Unknown policy type"]

\* The task t enters apply_policy(policy_name): it returns the Err of the
\* lookup or of the selection, or stands before its first nft command.
ApplyBegin(t) ==
    /\ process = "running"
    /\ applying[t].pc = "idle"
    /\ \E policy_name \in PolicyNames :
       \E online \in get_online_interfaces(interface_health) :
         LET intent == policy_intent(config, policy_name, online)
         IN  applying' = [applying EXCEPT ![t] =
                            [result |-> IF intent.result = "ok" THEN "none"
                                        ELSE intent.result,
                             issued |-> 0,
                             cmds |-> intent.cmds,
                             policy_name |-> policy_name,
                             pc |-> IF intent.result = "ok" THEN "rules" ELSE "done"]]
    /\ UNCHANGED <<config, interface_health, probes, now, health_task,
                   current_policy, policy_lock, chains, nft_table, last, error,
                   race, process>>

\* The task t hands its next command to nft (execute_nft_command); nothing
\* keeps another task from doing the same between two commands of t.  A
\* refused command ends apply_policy with its Err; after the last command
\* the task stands before the write of current_policy.
ApplyStep(t) ==
    /\ process = "running"
    /\ applying[t].pc = "rules"
    /\ \E fail_at \in 0..1 :
         LET a == applying[t]
             ex == execute_nft_commands(Kernel(nft_table, chains),
                                        << a.cmds[a.issued + 1] >>, fail_at)
         IN  /\ chains' = ex.chains.rules
             /\ nft_table' = ex.chains.table
             /\ applying' = [applying EXCEPT ![t] =
                   [a EXCEPT !.issued = @ + 1,
                             !.result = IF ex.ok THEN @ ELSE "nft command failed",
                             !.pc = IF ~ex.ok THEN "done"
                                    ELSE IF a.issued + 1 = Len(a.cmds) THEN "write"
                                    ELSE "rules"]]
    /\ UNCHANGED <<config, interface_health, probes, now, health_task,
                   current_policy, policy_lock, last, error, race, process>>

\* The task t takes the write lock of current_policy, stores the name and
\* returns Ok (lines 50-53).
ApplyWrite(t) ==
    /\ process = "running"
    /\ applying[t].pc = "write"
    /\ policy_lock = "free"
    /\ current_policy' = record_current(current_policy, applying[t].policy_name, "ok")
    /\ applying' = [applying EXCEPT ![t].result = "ok", ![t].pc = "done"]
    /\ UNCHANGED <<config, interface_health, probes, now, health_task,
                   policy_lock, chains, nft_table, last, error, race, process>>

\* The end of the process: graceful_shutdown's process::exit(0) on SIGTERM
\* or SIGINT, or main returning after ctrl_c.  Neither waits for a task.
Shutdown ==
    /\ process = "running"
    /\ process' = "exited"
    /\ UNCHANGED <<config, interface_health, probes, now, health_task,
                   current_policy, policy_lock, chains, nft_table, last, error,
                   race, applying>>

(***************************************************************************)
(* udp_race.rs                                                             *)
(***************************************************************************)
\* The tasks that call start_race, possibly at the same time.
Tasks == {"t1", "t2"}

\* UdpRaceManager::new: no race, the counter at 0.  Beside the two fields of
\* the manager the record holds where each caller of start_race stands (pc,
\* and the race_id it took), the ids taken from the counter in the order
\* they were taken (taken), the sockets bound so far (opened), the probe
\* tasks spawned per race and still waiting (waiting), the responses that
\* reached a probe task, per race in the order of arrival (responses), the
\* results the probe tasks sent into the channel of a race (sent), the races
\* start_race returned Ok for (started), and what the last call returned:
\* the id of start_race (returned_id), the race asked for and the Option
\* returned by get_race_result (asked, winner).
NoRaces ==
    [race_counter |-> 0, active_races |-> << >>,
     pc |-> [t \in Tasks |-> "idle"], race_id |-> [t \in Tasks |-> 0],
     taken |-> << >>, opened |-> 0, waiting |-> << >>, responses |-> << >>,
     sent |-> << >>, started |-> {},
     returned_id |-> 0, asked |-> 0, winner |-> None]

\* Line 125: latency: Duration::from_millis(10), whatever the time taken.
PlaceholderLatency == 10

\* UdpRaceResult as the probe task builds it, lines 121-126: the name is
\* made of the socket's index, the latency is the fixed one.
UdpRaceResult(id, i) ==
    [latency |-> PlaceholderLatency,
     interface |-> << "interface_", ToString(i) >>, race_id |-> id]

\* A response as it truly came in: on which socket, after how long.
Arrival(i, d) == [elapsed |-> d, socket |-> i]

\* A faulty variant: the counter is read but not written back.
take_race_id_unwritten(counter) == [counter |-> counter, race_id |-> counter + 1]

\* start_race, lines 63-66, under the write lock of race_counter:
\* *counter += 1; race_id = *counter.
take_race_id(counter) == [counter |-> counter + 1, race_id |-> counter + 1]

\* The number of enabled uplinks: the sockets create_race_sockets binds.
EnabledCount(cfg) ==
    Cardinality({ k \in DOMAIN cfg.interfaces : cfg.interfaces[k].enabled })

\* start_race up to the release of the counter: Err when udp_race is off,
\* else the caller holds its race id.
StartRaceBegin(t) ==
    /\ race.pc[t] = "idle"
    /\ race.race_counter < MaxRaces
    /\ IF ~config.udp_race
       THEN /\ race' = [race EXCEPT !.returned_id = 0]
            /\ error' = << "UDP Race is disabled" >>
            /\ last' = [NoLast EXCEPT !.op = "start_race",
                                      !.arg = t,
                                      !.result = "UDP Race is disabled",
                                      !.tick = ~last.tick]
       ELSE LET c == take_race_id(race.race_counter)
            IN  /\ race' = [race EXCEPT !.race_counter = c.counter,
                                        !.race_id[t] = c.race_id,
                                        !.taken = Append(@, c.race_id),
                                        !.pc[t] = "counted"]
                /\ UNCHANGED <<error, last>>
    /\ UNCHANGED <<config, interface_health, probes, now, health_task,
                   current_policy, policy_lock, chains, nft_table,
                   applying, process>>

\* The rest of start_race: create_race_sockets binds one socket per enabled
\* uplink, execute_race binds one more per socket and spawns its probe task,
\* then the race is inserted and its id returned.  bind_fail is the number
\* of the bind that fails (0: none); the ? returns at once, and the probe
\* tasks spawned before it keep running.
StartRaceFinish(t) ==
    /\ race.pc[t] = "counted"
    /\ LET n == EnabledCount(config)
           id == race.race_id[t]
       IN  \E bind_fail \in 0..(2 * n) :
             LET ok == bind_fail = 0
                 bound == IF ok THEN 2 * n ELSE bind_fail - 1
                 spawned == IF ok THEN n
                            ELSE IF bind_fail > n THEN bind_fail - n - 1 ELSE 0
             IN  /\ race' = [race EXCEPT
                               !.pc[t] = "idle",
                               !.race_id[t] = 0,
                               !.opened = @ + bound,
                               !.waiting = (id :> (0..(spawned - 1))) @@ @,
                               !.responses = (id :> << >>) @@ @,
                               !.sent = (id :> << >>) @@ @,
                               !.started = IF ok THEN @ \cup {id} ELSE @,
                               !.active_races = IF ok THEN (id :> n) @@ @ ELSE @,
                               !.returned_id = IF ok THEN id ELSE 0]
                 /\ error' = IF ok THEN << >> ELSE << "bind: ", "Address in use" >>
                 /\ last' = [NoLast EXCEPT !.op = "start_race",
                                           !.arg = t,
                                           !.result = IF ok THEN "ok" ELSE "bind failed",
                                           !.tick = ~last.tick]
    /\ UNCHANGED <<config, interface_health, probes, now, health_task,
                   current_policy, policy_lock, chains, nft_table,
                   applying, process>>

\* A probe task of execute_race: the response to socket i of race id comes
\* in after d.  The task builds its UdpRaceResult and sends it into the
\* channel of the race; the receiver of that channel is a local of
\* start_race that is never read and is dropped at its return, so what is
\* sent reaches nobody.
ProbeResponse ==
    \E id \in DOMAIN race.waiting :
      \E i \in race.waiting[id], d \in Latencies :
        /\ race' = [race EXCEPT !.waiting[id] = @ \ {i},
                                !.responses[id] = Append(@, Arrival(i, d)),
                                !.sent[id] = Append(@, UdpRaceResult(id, i))]
        /\ UNCHANGED <<config, interface_health, probes, now, health_task,
                       current_policy, policy_lock, chains, nft_table, last, error,
                       applying, process>>

\* get_race_result(race_id, timeout_duration): the future inside timeout is
\* ready at once with Ok(None).
get_race_result(race_id, timeout_duration) == [ok |-> TRUE, val |-> None]

GetRaceResult ==
    \E race_id \in 1..race.race_counter, timeout_duration \in Latencies :
      LET res == get_race_result(race_id, timeout_duration)
      IN  /\ race' = [race EXCEPT !.asked = race_id, !.winner = res.val]
          /\ error' = IF res.ok THEN << >> ELSE << "deadline has elapsed" >>
          /\ last' = [NoLast EXCEPT !.op = "get_race_result",
                                    !.result = IF res.ok THEN "ok" ELSE "elapsed",
                                    !.tick = ~last.tick]
          /\ UNCHANGED <<config, interface_health, probes, now, health_task,
                         current_policy, policy_lock, chains, nft_table,
                         applying, process>>

\* process_active_races, one turn of run_race_manager: every race of the
\* map is taken as completed and removed.
ProcessActiveRaces ==
    /\ race' = [race EXCEPT !.active_races = << >>]
    /\ UNCHANGED <<config, interface_health, probes, now, health_task,
                   current_policy, policy_lock, chains, nft_table, last, error,
                   applying, process>>

(***************************************************************************)
(* Initial states and specifications.                                      *)
(***************************************************************************)
EmptyChains == [c \in ChainNames |-> <<>>]

\* After construction: HealthChecker::new, LoadBalancer::new, and the
\* configuration as loaded.
InitWith(cfg) ==
    /\ load(cfg).ok /\ validate(cfg)
    /\ config = load(cfg).config
    /\ probes = [n \in Names |-> <<>>]
    /\ now = 0
    /\ health_task = "running"
    /\ current_policy = None
    /\ policy_lock = "free"
    /\ last = NoLast
    /\ error = <<>>
    /\ race = NoRaces
    /\ applying = [t \in Appliers |-> NoApply]
    /\ process = "running"

\* The health checker on its own.
HealthInit ==
    /\ \E cfg \in HealthConfigs : InitWith(cfg)
    /\ interface_health = << >>
    /\ chains = EmptyChains
    /\ nft_table = FullTable

HealthNext == HealthCycle

HealthSpec == HealthInit /\ [][HealthNext]_vars

\* The rules the kernel may hold in mwan3_policy when the daemon starts
\* (the table outlives the process, nothing clears it at start).
KernelPolicyChains == { <<>>, << Rule("mark", "", 0, 0, 1) >> }

\* The health maps the policy engine may be given to read: no record yet, or
\* a record for every enabled uplink, online or not.
HealthMaps(cfg) ==
    UNION { [S -> { InterfaceHealth(on, None, 0, 0, 0) : on \in BOOLEAN }] :
              S \in { {}, EnabledNames(cfg) } }

\* The policy engine and the rule compiler, with the health map as input.
PolicyInit ==
    /\ \E cfg \in PolicyConfigs :
         /\ InitWith(cfg)
         /\ interface_health \in HealthMaps(cfg)
    /\ \E pc \in KernelPolicyChains :
         chains = [EmptyChains EXCEPT !["mwan3_policy"] = pc]
    /\ nft_table = FullTable

PolicyNext == ApplyPolicy \/ HandleInterfaceChange

PolicySpec == PolicyInit /\ [][PolicyNext]_vars

\* One call of an operation of NftablesManager that hands cmds to nft one by
\* one: the kernel takes the commands before the first refused one, and the
\* call returns Ok or the Err of that command.
NftCall(op, intent, cmds) ==
    \E fail_at \in 0..Len(cmds) :
      LET ex == execute_nft_commands(Kernel(nft_table, chains), cmds, fail_at)
      IN  /\ fail_at <= ex.issued
          /\ chains' = ex.chains.rules
          /\ nft_table' = ex.chains.table
          /\ error' = ex.err
          /\ last' = [NoLast EXCEPT !.op = op,
                                    !.intent = intent,
                                    !.result = IF ex.ok THEN "ok"
                                               ELSE "nft command failed",
                                    !.issued = ex.issued,
                                    !.rejected = ex.rejected,
                                    !.stderr = ex.stderr,
                                    !.repeat = /\ last.op = op
                                               /\ last.intent = intent
                                               /\ last.result = "ok",
                                    !.tick = ~last.tick]
          /\ UNCHANGED <<config, interface_health, probes, now, health_task,
                         current_policy, policy_lock, race,
                         applying, process>>

\* NftablesManager::initialize().
Initialize == NftCall("initialize", << >>, initialize)

\* NftablesManager::update_rules(interface).
UpdateRules ==
    \E interface \in Names :
      NftCall("update_rules", << interface >>, update_rules(interface))

\* The lists of uplink names a caller may pass, in any order.
NameLists == UNION { Orders(S) : S \in SUBSET Names }

\* The policies passed to setup_round_robin: the one apply_round_robin_policy
\* passes (its type is load-balance), and one of another type.
RoundRobinPolicies(cfg) ==
    { cfg.policies[i] : i \in { j \in DOMAIN cfg.policies :
                                  cfg.policies[j].policy_type
                                    \in {"load-balance", "url-test"} } }

\* NftablesManager::setup_round_robin(interfaces, policy).
SetupRoundRobin ==
    \E interfaces \in NameLists, policy \in RoundRobinPolicies(config) :
      NftCall("setup_round_robin", << interfaces, policy >>,
              setup_round_robin(interfaces, policy))

\* NftablesManager::setup_failover(primary).
SetupFailover ==
    \E primary \in Names :
      NftCall("setup_failover", << primary >>, setup_failover(primary))

\* What the chains other than mwan3_policy may hold when the rule compiler
\* starts: nothing, or rules written earlier.
KernelOtherChains ==
    { EmptyChains,
      [EmptyChains EXCEPT
         !["mwan3_rules"] = << Rule("saddr", "lan_a", 0, 0, 256) >>,
         !["mwan3_track"] = << Rule("oif", "wan1", 0, 0, 256) >>,
         !["mwan3_connected"] = << Rule("mark", "", 0, 0, 1) >>,
         !["mwan3_hook"] = << Rule("mark", "", 0, 0, 2) >>] }

\* The rule compiler alone: the kernel has no table yet, on either kind of
\* kernel, or holds a table set up earlier whose mwan3_hook is a base chain.
NftInit ==
    /\ InitWith(Config(Interfaces(TRUE), PoliciesA, HealthCheckConfig(2, 2)))
    /\ interface_health = << >>
    /\ \/ \E strict \in BOOLEAN :
            /\ nft_table = NoTable(strict)
            /\ chains = EmptyChains
       \/ /\ nft_table = NftTable(TRUE, ChainNames, {"mwan3_hook"}, TRUE)
          /\ chains \in KernelOtherChains

NftNext == Initialize \/ UpdateRules \/ SetupRoundRobin \/ SetupFailover

NftSpec == NftInit /\ [][NftNext]_vars

\* The uplink list with the uplinks named in off disabled.
Disable(ifs, off) ==
    [ k \in DOMAIN ifs |->
        IF ifs[k].name \in off THEN [ifs[k] EXCEPT !.enabled = FALSE] ELSE ifs[k] ]

\* The configuration files of the uplink-rule runs: wan2, which has two
\* source sets, is enabled or not.
SyncConfigs ==
    { Config(Disable(Interfaces(TRUE), off), PoliciesA, HealthCheckConfig(2, 2)) :
        off \in SUBSET {"wan2"} }

\* Config::reload: the file is read again and replaces the configuration.
reload(cfg, file) ==
    IF load(file).ok THEN [ok |-> TRUE, config |-> load(file).config]
    ELSE [ok |-> FALSE, config |-> cfg]

\* Config::reload(path) on the shared configuration.
Reload(files) ==
    \E file \in files :
      /\ config' = reload(config, file).config
      /\ config' /= config
      /\ last' = [NoLast EXCEPT !.op = "reload",
                                !.result = IF reload(config, file).ok THEN "ok"
                                           ELSE "load failed",
                                !.tick = ~last.tick]
      /\ error' = << >>
      /\ UNCHANGED <<interface_health, probes, now, health_task, current_policy,
                     policy_lock, chains, nft_table, race,
                     applying, process>>

\* NftablesManager::setup_interface_sets(interface) for an uplink of the
\* configuration.
SetupInterfaceSets ==
    \E k \in DOMAIN config.interfaces :
      LET interface == config.interfaces[k]
      IN  /\ Len(chains["mwan3_rules"]) + Len(interface.nftables_sets) <= MaxRules
          /\ NftCall("setup_interface_sets", << interface >>,
                     setup_interface_sets(interface))

\* NftablesManager::update_interface_mark(interface, mark, enabled) for an
\* uplink of the configuration.
UpdateInterfaceMark ==
    \E k \in DOMAIN config.interfaces :
      LET interface == config.interfaces[k]
      IN  /\ Len(chains["mwan3_track"]) < MaxMarks
          /\ NftCall("update_interface_mark", << interface >>,
                     update_interface_mark(interface.name, interface.mark,
                                           interface.enabled))

\* The uplink rules on their own, over an initialized table.
SyncInit ==
    /\ \E cfg \in SyncConfigs : InitWith(cfg)
    /\ interface_health = << >>
    /\ chains = EmptyChains
    /\ nft_table = FullTable

SyncNext == SetupInterfaceSets \/ UpdateInterfaceMark \/ Reload(SyncConfigs)

SyncSpec == SyncInit /\ [][SyncNext]_vars

\* The configuration files of the race runs: two uplinks enabled, none
\* enabled, and UDP race switched off.
RaceConfigs ==
    LET two == Config(Interfaces(FALSE), PoliciesA, HealthCheckConfig(2, 2))
    IN  { two,
          [two EXCEPT !.interfaces = Disable(@, Names)],
          [two EXCEPT !.udp_race = FALSE] }

\* The race manager on its own.
RaceInit ==
    /\ \E cfg \in RaceConfigs : InitWith(cfg)
    /\ interface_health = << >>
    /\ chains = EmptyChains
    /\ nft_table = FullTable

RaceNext ==
    \/ \E t \in Tasks : StartRaceBegin(t)
    \/ \E t \in Tasks : StartRaceFinish(t)
    \/ ProbeResponse
    \/ GetRaceResult
    \/ ProcessActiveRaces

RaceSpec == RaceInit /\ [][RaceNext]_vars

\* The uplink list without the uplinks named in gone.
Without(ifs, gone) == SelectSeq(ifs, LAMBDA interface : interface.name \notin gone)

\* The configuration files of the runs in which an uplink comes and goes:
\* wan2 is in the file or not.
LifecycleConfigs ==
    { Config(Without(Interfaces(FALSE), gone), PoliciesA, HealthCheckConfig(2, 2)) :
        gone \in SUBSET {"wan2"} }

\* The health checker while the configuration is reloaded under it.
LifecycleInit ==
    /\ \E cfg \in LifecycleConfigs : InitWith(cfg)
    /\ interface_health = << >>
    /\ chains = EmptyChains
    /\ nft_table = FullTable

LifecycleNext == HealthCycle \/ Reload(LifecycleConfigs)

LifecycleSpec == LifecycleInit /\ [][LifecycleNext]_vars

\* Tasks inside apply_policy at the same time, and the end of the process,
\* over the online sets of PolicySpec.
ConcInit ==
    /\ InitWith(Config(Interfaces(TRUE), PoliciesA, HealthCheckConfig(2, 2)))
    /\ interface_health \in HealthMaps(config)
    /\ chains = EmptyChains
    /\ nft_table = FullTable

ConcNext ==
    \/ \E t \in Appliers : ApplyBegin(t)
    \/ \E t \in Appliers : ApplyStep(t)
    \/ \E t \in Appliers : ApplyWrite(t)
    \/ Shutdown

ConcSpec == ConcInit /\ [][ConcNext]_vars

\* The whole daemon.
Init == HealthInit

Next == HealthNext \/ PolicyNext

Spec == Init /\ [][Next]_vars

(***************************************************************************)
(* Properties of the health checker.                                       *)
(***************************************************************************)
Online(hm, n) == n \in DOMAIN hm /\ hm[n].is_online

\* The record of n as check_interface finds it (the default when absent).
RecordOf(hm, n) ==
    IF n \in DOMAIN hm THEN hm[n] ELSE InterfaceHealth(FALSE, None, 0, 0, 0)

\* Length of the run of outcomes equal to b that ends the log.
RECURSIVE Streak(_, _)
Streak(log, b) ==
    IF log = <<>> \/ log[Len(log)] /= b THEN 0
    ELSE 1 + Streak(SubSeq(log, 1, Len(log) - 1), b)

Probed(n) == probes'[n] /= probes[n]

LastOutcome(log) == log[Len(log)]

\* C1: is_online goes from true to false only at a probe that brings the run
\* of consecutive failures to the fail threshold or more, and from false to
\* true only at a probe that brings the run of consecutive successes to the
\* success threshold or more; so with a threshold above 1 a single failure
\* between successes (or success between failures) never flips it.
C1_FlipOnlyAtThreshold ==
    [][\A n \in Names :
         /\ (Online(interface_health, n) /\ ~Online(interface_health', n))
              => /\ Probed(n)
                 /\ Streak(probes'[n], FALSE) >= config.health_check.fail_threshold
         /\ (~Online(interface_health, n) /\ Online(interface_health', n))
              => /\ Probed(n)
                 /\ Streak(probes'[n], TRUE) >= config.health_check.succ_threshold
      ]_vars

\* An uplink probed success, failure, success under thresholds above 1.
C1_Witness ==
    \E n \in Names :
       /\ config.health_check.fail_threshold > 1
       /\ config.health_check.succ_threshold > 1
       /\ Len(probes[n]) >= 3
       /\ SubSeq(probes[n], Len(probes[n]) - 2, Len(probes[n])) = <<TRUE, FALSE, TRUE>>
       /\ n \in DOMAIN interface_health
       /\ ~interface_health[n].is_online

\* C2: a failed probe sets failure_count to its previous value + 1 and
\* recovery_count to 0; a successful probe sets recovery_count to its
\* previous value + 1 and failure_count to 0.
C2_CountersFollowProbe ==
    [][\A n \in Names :
         Probed(n) =>
           LET old == RecordOf(interface_health, n)
               new == interface_health'[n]
           IN  IF LastOutcome(probes'[n])
               THEN new.recovery_count = old.recovery_count + 1 /\ new.failure_count = 0
               ELSE new.failure_count = old.failure_count + 1 /\ new.recovery_count = 0
      ]_vars

\* C3: a failed probe of an uplink whose record holds latency Some(d) leaves
\* latency = Some(d); only a successful probe overwrites it.
C3_LatencyKeptOnFailure ==
    [][\A n \in Names :
         (/\ n \in DOMAIN interface_health
          /\ is_some(interface_health[n].latency)
          /\ Probed(n)
          /\ ~LastOutcome(probes'[n]))
         => interface_health'[n].latency = interface_health[n].latency
      ]_vars

(***************************************************************************)
(* Properties of the policy engine.                                        *)
(***************************************************************************)
PolicyKinds == {"url-test", "load-balance", "fallback"}

Found(policy_name) == find_policy(config, policy_name) /= 0

PolicyOf(policy_name) == config.policies[find_policy(config, policy_name)]

\* The policy's uplinks that are online, in the policy's own order.
OnlineMembers(policy) ==
    SelectSeq(policy.interfaces, LAMBDA n : n \in OnlineSet(interface_health))

InterfaceOf(n) ==
    config.interfaces[CHOOSE i \in DOMAIN config.interfaces : config.interfaces[i].name = n]

RECURSIVE TotalWeight(_)
TotalWeight(members) ==
    IF members = <<>> THEN 0
    ELSE InterfaceOf(Head(members)).weight + TotalWeight(Tail(members))

PolicyChain == chains["mwan3_policy"]

Activated(kind) == last.op = "apply_policy" /\ last.arg = kind

\* A step of apply_policy or of a re-evaluation.
Evaluated ==
    /\ last'.tick /= last.tick
    /\ last'.op \in {"apply_policy", "handle_interface_change"}

C6_NoUplinksIsAnError ==
    (/\ last.op = "apply_policy"
     /\ Found(last.arg)
     /\ PolicyOf(last.arg).policy_type \in PolicyKinds
     /\ OnlineMembers(PolicyOf(last.arg)) = <<>>)
    => last.result = "No online interfaces"

\* C7: an activation or re-evaluation that finds none of the policy's uplinks
\* online leaves mwan3_policy as it was.
C7_NoUplinksKeepsRules ==
    [][(/\ Evaluated
        /\ Found(last'.arg)
        /\ PolicyOf(last'.arg).policy_type \in PolicyKinds
        /\ OnlineMembers(PolicyOf(last'.arg)) = <<>>)
       => chains'["mwan3_policy"] = chains["mwan3_policy"]
      ]_vars

\* C8: current_policy changes only in an apply_policy that succeeds, and then
\* holds the name activated; an apply_policy that fails keeps it, and one that
\* fails with policy-not-found or unknown-kind issues no nft command.
C8_ActivePolicyOnlyOnSuccess ==
    [][/\ current_policy' /= current_policy
          => /\ last'.op = "apply_policy" /\ last'.result = "ok"
             /\ current_policy' = Some(last'.arg)
       /\ (last'.tick /= last.tick /\ last'.op = "apply_policy")
          => /\ last'.result = "ok" => current_policy' = Some(last'.arg)
             /\ last'.result /= "ok" => current_policy' = current_policy
             /\ last'.result \in {"Policy not found", "Unknown policy type"}
                  => last'.issued = 0 /\ chains' = chains
      ]_vars

\* A failed lookup or dispatch after an activation: the cell still holds it.
C8_Witness ==
    /\ last.op = "apply_policy"
    /\ last.result \in {"Policy not found", "Unknown policy type"}
    /\ is_some(current_policy)
    /\ current_policy.v /= last.arg

\* C9: apply_policy of a policy whose list names an unconfigured uplink
\* returns an error and writes no rule (the configuration itself loads).
C9_UnknownUplinkRejected ==
    (/\ last.op = "apply_policy"
     /\ Found(last.arg)
     /\ \E k \in DOMAIN PolicyOf(last.arg).interfaces :
          PolicyOf(last.arg).interfaces[k] \notin ConfNames(config))
    => /\ last.result \notin {"ok", "blocked"}
       /\ last.issued = 0

\* The share of flows a rule marks, as <<numerator, denominator>>: a numgen
\* rule matches one value of its modulus, the other kinds match every flow.
RuleShare(r) == IF r.kind = "numgen" THEN <<1, r.mod>> ELSE <<1, 1>>

PolicyOps == {"update_rules", "setup_round_robin", "setup_failover"}

\* A step that is one call of the rule compiler.
NftStep == last'.tick /= last.tick

\* C11: a policy apply operation (update_rules, setup_round_robin,
\* setup_failover) that returns Ok right after the same operation with the
\* same arguments returned Ok leaves mwan3_policy with exactly the rules it
\* had: the second apply changes nothing and adds nothing.
C11_SameIntentSameRules ==
    [][ (NftStep /\ last'.op \in PolicyOps /\ last'.repeat /\ last'.result = "ok")
          => chains'["mwan3_policy"] = chains["mwan3_policy"] ]_vars

\* Three uplinks in rotation have been applied twice in a row.
C11_Witness ==
    /\ last.op = "setup_round_robin" /\ last.repeat /\ last.result = "ok"
    /\ Len(last.intent[1]) = 3
    /\ Len(chains["mwan3_policy"]) = 3

\* C12: a policy apply operation, whatever it returns, leaves the rules of
\* mwan3_hook, mwan3_connected, mwan3_track and mwan3_rules and the table's
\* chains as they were; it writes to mwan3_policy only.
C12_OnlyPolicyChainWritten ==
    [][ (NftStep /\ last'.op \in PolicyOps)
          => /\ \A c \in ChainNames \ {"mwan3_policy"} : chains'[c] = chains[c]
             /\ nft_table' = nft_table ]_vars

\* A policy has been applied over chains that hold rules of their own.
C12_Witness ==
    /\ last.op \in PolicyOps /\ last.result = "ok"
    /\ chains["mwan3_policy"] /= << >>
    /\ \A c \in ChainNames \ {"mwan3_policy"} : chains[c] /= << >>


(***************************************************************************)
(* The uplink rules (SyncSpec).                                            *)
(***************************************************************************)
\* How many times the rule r stands in the chain c.
Count(c, r) == Cardinality({ k \in DOMAIN chains[c] : chains[c][k] = r })

\* The rules of mwan3_rules that the claim allots to the uplink: one per
\* source set when it is enabled, none when it is not.
Allotted(interface) == IF interface.enabled THEN 1 ELSE 0

\* C13: once setup_interface_sets has returned Ok for an uplink, mwan3_rules
\* holds for each source set of that uplink exactly one rule with the
\* uplink's mark if the uplink is enabled and none if it is disabled, also
\* when the call is repeated or the uplink was enabled before.
C13_OneRulePerEnabledPair ==
    (last.op = "setup_interface_sets" /\ last.result = "ok")
      => LET interface == last.intent[1]
         IN  \A k \in DOMAIN interface.nftables_sets :
               Count("mwan3_rules",
                     Rule("saddr", interface.nftables_sets[k], 0, 0, interface.mark))
                 = Allotted(interface)


(***************************************************************************)
(* initialize() and the errors of the rule compiler (NftSpec).             *)
(***************************************************************************)
\* The table and its five chains exist.
Initialized(t) == t.exists /\ ChainNames \subseteq t.chains

\* C14: unless nft refuses a command for a reason of its own, initialize()
\* returns Ok and leaves the table and the five chains in existence, and on
\* a system where they exist already it changes neither the table nor a
\* rule.
C14_InitializeIsRepeatable ==
    [][ (NftStep /\ last'.op = "initialize" /\ last'.stderr /= Refused)
          => /\ last'.result = "ok"
             /\ Initialized(nft_table')
             /\ Initialized(nft_table)
                  => (nft_table' = nft_table /\ chains' = chains) ]_vars

\* The sequence part stands in the sequence whole, piece by piece.
Contains(whole, part) ==
    \E i \in 0..(Len(whole) - Len(part)) :
      \A k \in 1..Len(part) : whole[i + k] = part[k]

\* C15: when nft refuses a command of an operation, the Err the operation
\* returns holds the text of the refused command and what nft printed, and
\* the refused command is the last one issued.
C15_ErrorNamesCommandAndDiagnostic ==
    (last.result = "nft command failed")
      => /\ Contains(error, nft_text(last.rejected))
         /\ Contains(error, << last.stderr >>)
         /\ last.issued >= 1


(***************************************************************************)
(* The race manager (RaceSpec).                                            *)
(***************************************************************************)
\* The step in which the task t returns from start_race after it took an id.
Returns(t) == race.pc[t] = "counted" /\ race'.pc[t] = "idle"

\* C16: with no uplink enabled, start_race returns the error
\* NoUplinksAvailable: it returns no race id, binds no socket and puts no
\* race into active_races.
C16_NoUplinksNoRace ==
    [][ \A t \in Tasks :
          (Returns(t) /\ EnabledCount(config) = 0)
            => /\ last'.result = "NoUplinksAvailable"
               /\ race'.returned_id = 0
               /\ race'.opened = race.opened
               /\ race'.active_races = race.active_races ]_vars

\* A step that is a call of get_race_result for a race that was started.
Asked ==
    /\ last'.tick /= last.tick /\ last'.op = "get_race_result"
    /\ race'.asked \in race.started

\* C17: get_race_result for a race none of whose probes got a response
\* returns the error RaceTimedOut, not Ok with an empty result.
C17_NoResponseIsTimedOut ==
    [][ (Asked /\ race.responses[race'.asked] = << >>)
          => (last'.result = "RaceTimedOut" /\ ~is_some(race'.winner)) ]_vars

\* The enabled uplinks in configuration order: socket i belongs to the
\* (i + 1)-th of them.
EnabledList(cfg) == SelectSeq(cfg.interfaces, LAMBDA interface : interface.enabled)

\* C18: get_race_result for a race with at least one response returns a
\* result that names the uplink whose response came in first, with a latency
\* not above the time any response of that race took.
C18_WinnerIsFirstResponse ==
    [][ (Asked /\ race.responses[race'.asked] /= << >>)
          => LET arrived == race.responses[race'.asked]
             IN  /\ is_some(race'.winner)
                 /\ race'.winner.v.interface
                      = << EnabledList(config)[arrived[1].socket + 1].name >>
                 /\ \A k \in DOMAIN arrived :
                      race'.winner.v.latency <= arrived[k].elapsed ]_vars

\* C19: the id a call of start_race takes is greater than every id taken
\* before it, so the ids grow strictly in the order the races are started
\* and no two races, started one after the other or at the same time, have
\* the same id.
C19_RaceIdsGrow ==
    [][ \A t \in Tasks :
          (race.pc[t] = "idle" /\ race'.pc[t] = "counted")
            => /\ race'.race_id[t] = race'.taken[Len(race'.taken)]
               /\ \A k \in DOMAIN race.taken : race.taken[k] < race'.race_id[t]
               /\ \A u \in Tasks \ {t} : race'.race_id[u] /= race'.race_id[t] ]_vars

\* Two calls of start_race are under way at the same time, each with an id.
C19_Witness ==
    /\ \A t \in Tasks : race.pc[t] = "counted"
    /\ race.race_id["t1"] > race.race_id["t2"]
    /\ race.race_id["t2"] > 0


(***************************************************************************)
(* The health records while uplinks come and go (LifecycleSpec).           *)
(***************************************************************************)
\* The record of the uplink n is offline, has zero counters and no latency.
IsDefault(hm, n) ==
    /\ ~hm[n].is_online
    /\ hm[n].failure_count = 0 /\ hm[n].recovery_count = 0
    /\ ~is_some(hm[n].latency)

\* C20: a record that appears is offline with zero counters; a record is
\* not removed while its uplink stays in the configuration; and when an
\* uplink that was taken out of the configuration is put back, its record,
\* if there is one, is the default one: offline, zero counters, no latency.
C20_RecordLifecycle ==
    [][ \A n \in Names :
          /\ (n \notin DOMAIN interface_health /\ n \in DOMAIN interface_health')
               => /\ ~interface_health'[n].is_online
                  /\ interface_health'[n].failure_count = 0
                  /\ interface_health'[n].recovery_count = 0
          /\ (n \in DOMAIN interface_health /\ n \in ConfNames(config)
                 /\ n \in ConfNames(config'))
               => n \in DOMAIN interface_health'
          /\ (n \notin ConfNames(config) /\ n \in ConfNames(config')
                 /\ n \in DOMAIN interface_health')
               => IsDefault(interface_health', n) ]_vars


(***************************************************************************)
(* Re-evaluation and tasks applying at the same time.                      *)
(***************************************************************************)
\* C21: handle_interface_change returns to its caller, also when a policy
\* is active and its rules went in: it is never left waiting for the lock
\* of current_policy; and with no active policy it issues no command.
C21_ReevaluationReturns ==
    (last.op = "handle_interface_change")
      => /\ last.result /= "blocked"
         /\ ~is_some(current_policy) => last.issued = 0

\* The rules the commands cmds leave in mwan3_policy when nothing else
\* writes to the chain.
RulesOf(cmds) ==
    execute_nft_commands(Kernel(FullTable, EmptyChains), cmds, 0).chains.rules["mwan3_policy"]

C24_ThresholdReached ==
    \A n \in Names :
       /\ Streak(probes[n], TRUE) >= config.health_check.succ_threshold
            => /\ Online(interface_health, n)
               /\ \A l \in get_online_interfaces(interface_health) :
                     \E i \in DOMAIN l : l[i] = n
       /\ Streak(probes[n], FALSE) >= config.health_check.fail_threshold
            => /\ ~Online(interface_health, n)
               /\ \A l \in get_online_interfaces(interface_health) :
                     \A i \in DOMAIN l : l[i] /= n

\* The calls of check_interface a step makes: one per unit of the clock.
Calls == (now + 1)..now'

\* C25: every call of check_interface leaves the record of its uplink with
\* last_check set to the time of the call and feeds an outcome to the
\* hysteresis, also when curl could not be started (then the outcome is a
\* failure); the call returns no error.
C25_UnstartedProbeIsFailure ==
    [][(now' /= now) =>
         /\ \A t \in Calls :
              \E n \in Names :
                 /\ n \in DOMAIN interface_health'
                 /\ interface_health'[n].last_check = t
                 /\ Probed(n)
         /\ error' = << >>
      ]_vars

\* C26: a cycle probes every enabled uplink and updates its record whatever
\* the probes of the other uplinks gave, and the periodic task is running
\* after the cycle.
C26_CycleCoversAllUplinks ==
    [][(now' /= now) =>
         /\ \A n \in EnabledNames(config) :
              /\ Probed(n)
              /\ n \in DOMAIN interface_health'
              /\ interface_health'[n].last_check > now
         /\ health_task' = "running"
      ]_vars

MayBeResolved(id) ==
    \/ race.responses[id] /= << >>
    \/ race.waiting[id] = {}
    \/ race.asked /= 0

\* C27: the entry of a race leaves active_races only when the race has
\* resolved, by a winner or by its deadline: an unresolved race is never
\* dropped.
C27_EntryUntilResolved ==
    [][\A id \in DOMAIN race.active_races :
         (id \notin DOMAIN race'.active_races) => MayBeResolved(id)
      ]_vars

====
